---- MODULE Spec2Model ----
(***************************************************************************)
(* Model of the WhatsApp auto-responder (class WhatsAppAutoResponder).     *)
(*                                                                         *)
(* Two builds of the program are in the repository and both are modelled:  *)
(*   "index"    src/index.js           (raw VIP keys, reply awaited inline) *)
(*   "part_002" src/unnamed/part_002   (normalizeNumber, sendAutoReply)     *)
(* The variable build says which file is running; it never changes.        *)
(*                                                                         *)
(* Strings are sequences of one-character strings, so that trim, split,    *)
(* join, toLowerCase and the digit filter are computed as the code does.   *)
(* A handler of the 'message_create' event is an async function: it runs   *)
(* from one await to the next atomically and other handlers run in         *)
(* between.  Each await is one pc value of the handler's record.           *)
(***************************************************************************)
EXTENDS Integers, Sequences, FiniteSets, TLC

VARIABLES build, isAwayMode, awayMessage, vipContacts, lastReplies,
          clock, ticks, handlers, sent, cleared,
          isConnected, qrString, qrHandlers, lastEvent

(* the connection state: the two fields, the 'qr' handlers and the last    *)
(* lifecycle event the client delivered                                    *)
conn == <<isConnected, qrString, qrHandlers, lastEvent>>

vars == <<build, isAwayMode, awayMessage, vipContacts, lastReplies,
          clock, ticks, handlers, sent, cleared, conn>>

(***************************************************************************)
(* Bounds of the model.                                                    *)
(***************************************************************************)
MaxMsgs == 2
MaxTicks == 2

(***************************************************************************)
(* JavaScript values that are not strings.                                 *)
(***************************************************************************)
Undefined == <<"undefined">>
Null == <<"null">>
NoEntry == -1

(***************************************************************************)
(* Program constants.                                                      *)
(***************************************************************************)
replyDelay == 43200000
UnknownContact == <<"unknown-contact">>
DefaultMessage == <<"H", "e", "y", "!">>
Builds == {"index", "part_002"}

(***************************************************************************)
(* String helpers: the String methods the code calls.                      *)
(***************************************************************************)
Digits == {"0", "1", "2", "3", "4", "5", "6", "7", "8", "9"}
Whitespace == {" ", "\t", "\n"}

Truthy(s) == s # Undefined /\ s # Null /\ s # <<>>

RECURSIVE TrimStart(_)
TrimStart(s) ==
  IF s # <<>> /\ Head(s) \in Whitespace THEN TrimStart(Tail(s)) ELSE s

RECURSIVE TrimEnd(_)
TrimEnd(s) ==
  IF s # <<>> /\ s[Len(s)] \in Whitespace
    THEN TrimEnd(SubSeq(s, 1, Len(s) - 1)) ELSE s

Trim(s) == TrimEnd(TrimStart(s))

StartsWith(s, c) == s # <<>> /\ Head(s) = c

Slice1(s) == IF s = <<>> THEN <<>> ELSE Tail(s)

RECURSIVE SplitAcc(_, _, _)
SplitAcc(s, cur, acc) ==
  IF s = <<>> THEN Append(acc, cur)
  ELSE IF Head(s) = " " THEN SplitAcc(Tail(s), <<>>, Append(acc, cur))
  ELSE SplitAcc(Tail(s), Append(cur, Head(s)), acc)

Split(s) == SplitAcc(s, <<>>, <<>>)

RECURSIVE Join(_)
Join(parts) ==
  IF parts = <<>> THEN <<>>
  ELSE IF Len(parts) = 1 THEN parts[1]
  ELSE parts[1] \o <<" ">> \o Join(Tail(parts))

LowerChar(c) ==
  CASE c = "A" -> "a" [] c = "C" -> "c" [] c = "D" -> "d" [] c = "E" -> "e"
    [] c = "F" -> "f" [] c = "G" -> "g" [] c = "H" -> "h" [] c = "I" -> "i"
    [] c = "L" -> "l" [] c = "M" -> "m" [] c = "N" -> "n" [] c = "O" -> "o"
    [] c = "P" -> "p" [] c = "R" -> "r" [] c = "S" -> "s" [] c = "T" -> "t"
    [] c = "U" -> "u" [] c = "V" -> "v"
    [] OTHER -> c

RECURSIVE ToLowerCase(_)
ToLowerCase(s) ==
  IF s = <<>> THEN <<>> ELSE <<LowerChar(Head(s))>> \o ToLowerCase(Tail(s))

PartAt(parts, i) == IF i <= Len(parts) THEN parts[i] ELSE Undefined

RECURSIVE DigitsOf(_)
DigitsOf(s) ==
  IF s = <<>> THEN <<>>
  ELSE IF Head(s) \in Digits THEN <<Head(s)>> \o DigitsOf(Tail(s))
  ELSE DigitsOf(Tail(s))

RECURSIVE StripFirstNonDigit(_)
StripFirstNonDigit(s) ==
  IF s = <<>> THEN <<>>
  ELSE IF Head(s) \in Digits THEN <<Head(s)>> \o StripFirstNonDigit(Tail(s))
  ELSE Tail(s)

(* mutant of normalizeNumber: the pattern lacks the g flag, only the first *)
(* non-digit character goes                                                *)
normalizeNumber_FirstMatchOnly(n) ==
  IF ~Truthy(n) THEN Null
  ELSE IF StripFirstNonDigit(n) # <<>> THEN StripFirstNonDigit(n) ELSE Null

normalizeNumber(n) ==
  IF ~Truthy(n) THEN Null
  ELSE IF DigitsOf(n) # <<>> THEN DigitsOf(n) ELSE Null

Or(a, b) == IF Truthy(a) THEN a ELSE b

(***************************************************************************)
(* Inputs: what the messaging client delivers.                             *)
(* A contact is what message.getContact() resolves to, a chat what         *)
(* message.getChat() resolves to; a field the client leaves out is         *)
(* Undefined.                                                              *)
(***************************************************************************)
JidSuffix == <<"@", "c", ".", "u", "s">>
NumAlice == <<"3", "3">>
NumBob == <<"4", "4">>
GroupJid == <<"1", "@", "g", ".", "u", "s">>

Contact(num) == [hasId |-> TRUE, serialized |-> num \o JidSuffix, user |-> num]
Alice == Contact(NumAlice)
Bob == Contact(NumBob)
Unresolved == [hasId |-> FALSE, serialized |-> Undefined, user |-> Undefined]
EmptyId == [hasId |-> TRUE, serialized |-> Undefined, user |-> Undefined]

DmChat == [isGroup |-> FALSE, archived |-> FALSE, serialized |-> Undefined]
DmArchived == [isGroup |-> FALSE, archived |-> TRUE, serialized |-> Undefined]
GroupChat == [isGroup |-> TRUE, archived |-> FALSE, serialized |-> GroupJid]
GroupArchived == [isGroup |-> TRUE, archived |-> TRUE, serialized |-> GroupJid]

Msg(fromMe, body, chat, contact) ==
  [fromMe |-> fromMe, body |-> body, chat |-> chat, contact |-> contact]

Hi == <<"h", "i">>
BodyOn == <<"/", "o", "n">>
BodyOff == <<"/", "o", "f", "f">>
BodyClear == <<"/", "c", "l", "e", "a", "r">>
BodyHelp == <<"/", "h", "e", "l", "p">>
BodyStatus == <<"/", "S", "t", "a", "t", "u", "s">>
BodyVipList == <<"/", "v", "i", "p", " ", "l", "i", "s", "t">>
BodyToggle == <<"/", "t", "o", "g", "g", "l", "e">>
BodyFoo == <<"/", "F", "o", "o", " ", "o", "n">>
BodyMsgB == <<"/", "m", "s", "g", " ", "B", " ", "s">>
BodyVipAdd == <<"/", "v", "i", "p", " ", "a", "d", "d", " ">> \o NumAlice

Self(body) == Msg(TRUE, body, DmChat, Unresolved)

(***************************************************************************)
(* The command words of handleBotCommand's switch.                         *)
(***************************************************************************)
WHelp == <<"h", "e", "l", "p">>
WStatus == <<"s", "t", "a", "t", "u", "s">>
WOn == <<"o", "n">>
WOff == <<"o", "f", "f">>
WToggle == <<"t", "o", "g", "g", "l", "e">>
WMsg == <<"m", "s", "g">>
WVip == <<"v", "i", "p">>
WAdd == <<"a", "d", "d">>
WRemove == <<"r", "e", "m", "o", "v", "e">>
WList == <<"l", "i", "s", "t">>
WClear == <<"c", "l", "e", "a", "r">>

(***************************************************************************)
(* The configuration the handlers share, as one record, and the response   *)
(* string of a command: its template (kind) and the values it embeds.      *)
(***************************************************************************)
Config == [isAwayMode |-> isAwayMode, awayMessage |-> awayMessage,
           vipContacts |-> vipContacts, lastReplies |-> lastReplies]

EmptyMap == <<>>

MapGet(m, k) == IF k \in DOMAIN m THEN m[k] ELSE NoEntry

MapSet(m, k, v) == [x \in DOMAIN m \cup {k} |-> IF x = k THEN v ELSE m[x]]

MapSize(m) == Cardinality(DOMAIN m)

Resp(kind, text, st) ==
  [kind |-> kind, text |-> text, on |-> st.isAwayMode,
   vips |-> st.vipContacts, keys |-> MapSize(st.lastReplies)]

(***************************************************************************)
(* handleBotCommand up to its `await message.reply(response)`: the new     *)
(* configuration and the response.                                         *)
(***************************************************************************)
(* mutant of VipCommand: `remove` deletes the token as typed *)
VipCommand_RemovesRawToken(bld, parts, st) ==
  LET sub == IF PartAt(parts, 2) = Undefined THEN Undefined
             ELSE ToLowerCase(PartAt(parts, 2))
      raw == PartAt(parts, 3)
      num == IF bld = "index" THEN raw ELSE normalizeNumber(raw)
  IN  IF sub = WAdd /\ Truthy(num)
        THEN LET st2 == [st EXCEPT !.vipContacts = @ \cup {num}]
             IN  [st |-> st2, response |-> Resp("vipAdded", num, st2)]
      ELSE IF sub = WRemove /\ Truthy(num)
        THEN LET st2 == [st EXCEPT !.vipContacts = @ \ {raw}]
             IN  [st |-> st2, response |-> Resp("vipRemoved", num, st2)]
      ELSE IF sub = WList
        THEN [st |-> st, response |-> Resp("vipList", <<>>, st)]
      ELSE [st |-> st, response |-> Resp("vipUsage", <<>>, st)]

VipCommand(bld, parts, st) ==
  LET sub == IF PartAt(parts, 2) = Undefined THEN Undefined
             ELSE ToLowerCase(PartAt(parts, 2))
      num == IF bld = "index" THEN PartAt(parts, 3)
             ELSE normalizeNumber(PartAt(parts, 3))
  IN  IF sub = WAdd /\ Truthy(num)
        THEN LET st2 == [st EXCEPT !.vipContacts = @ \cup {num}]
             IN  [st |-> st2, response |-> Resp("vipAdded", num, st2)]
      ELSE IF sub = WRemove /\ Truthy(num)
        THEN LET st2 == [st EXCEPT !.vipContacts = @ \ {num}]
             IN  [st |-> st2, response |-> Resp("vipRemoved", num, st2)]
      ELSE IF sub = WList
        THEN [st |-> st, response |-> Resp("vipList", <<>>, st)]
      ELSE [st |-> st, response |-> Resp("vipUsage", <<>>, st)]

(* mutant of MsgCommand: only the first word of the text is stored *)
MsgCommand_FirstWord(params, st) ==
  IF Truthy(params)
    THEN LET st2 == [st EXCEPT !.awayMessage = Split(params)[1]]
         IN  [st |-> st2, response |-> Resp("msgUpdated", params, st2)]
    ELSE [st |-> st, response |-> Resp("msgMissing", <<>>, st)]

MsgCommand(params, st) ==
  IF Truthy(params)
    THEN LET st2 == [st EXCEPT !.awayMessage = params]
         IN  [st |-> st2, response |-> Resp("msgUpdated", params, st2)]
    ELSE [st |-> st, response |-> Resp("msgMissing", <<>>, st)]

ClearCommand(st) ==
  LET st2 == [st EXCEPT !.lastReplies = EmptyMap]
  IN  [st |-> st2, response |-> Resp("cleared", <<>>, st2)]

(* mutant of StatusCommand: the line of the throttle keys shows the size   *)
(* of the VIP set                                                          *)
StatusCommand_KeysFromVips(st) ==
  [st |-> st,
   response |-> [Resp("status", st.awayMessage, st) EXCEPT
                   !.keys = Cardinality(st.vipContacts)]]

StatusCommand(st) ==
  [st |-> st, response |-> Resp("status", st.awayMessage, st)]

(* mutant of ToggleCommand: the confirmation is built before the flag is   *)
(* flipped                                                                 *)
ToggleCommand_ReportsOldValue(st) ==
  [st |-> [st EXCEPT !.isAwayMode = ~@], response |-> Resp("toggle", <<>>, st)]

ToggleCommand(st) ==
  LET st2 == [st EXCEPT !.isAwayMode = ~@]
  IN  [st |-> st2, response |-> Resp("toggle", <<>>, st2)]

(* mutant of UnknownCommand: an unknown token is answered with the help *)
UnknownCommand_ShowsHelp(cmd, st) ==
  [st |-> st, response |-> Resp("help", <<>>, st)]

UnknownCommand(cmd, st) ==
  [st |-> st, response |-> Resp("unknown", cmd, st)]

handleBotCommand(bld, body, st) ==
  LET command == Trim(body)
      parts == Split(Slice1(command))
      cmd == ToLowerCase(parts[1])
      params == Join(Tail(parts))
      Set(on) == [st EXCEPT !.isAwayMode = on]
  IN  CASE cmd = WHelp -> [st |-> st, response |-> Resp("help", <<>>, st)]
        [] cmd = WStatus -> StatusCommand(st)
        [] cmd = WOn ->
             [st |-> Set(TRUE), response |-> Resp("on", <<>>, Set(TRUE))]
        [] cmd = WOff ->
             [st |-> Set(FALSE), response |-> Resp("off", <<>>, Set(FALSE))]
        [] cmd = WToggle -> ToggleCommand(st)
        [] cmd = WMsg -> MsgCommand(params, st)
        [] cmd = WVip -> VipCommand(bld, parts, st)
        [] cmd = WClear -> ClearCommand(st)
        [] OTHER -> UnknownCommand(cmd, st)

(***************************************************************************)
(* The HTTP control surface (initializeWebServer): each operator is one    *)
(* route, giving the new configuration and the HTTP status of its answer.  *)
(* A missing body field is Undefined.                                      *)
(***************************************************************************)
Ok == 200
BadRequest == 400

(* mutant of UpdateMessage: the field is tested before it is trimmed *)
UpdateMessage_TestsUntrimmed(bld, message, st) ==
  IF Truthy(message)
    THEN [st |-> [st EXCEPT !.awayMessage = Trim(message)], status |-> Ok]
    ELSE [st |-> st, status |-> BadRequest]

(* POST /api/update-message *)
UpdateMessage(bld, message, st) ==
  LET msg == IF bld = "index" THEN Trim(Or(message, <<>>))
             ELSE IF Truthy(message) THEN Trim(message) ELSE <<>>
  IN  IF Truthy(msg)
        THEN [st |-> [st EXCEPT !.awayMessage = msg], status |-> Ok]
        ELSE [st |-> st, status |-> BadRequest]

(* the number the VIP routes work on: index.js trims the field, part_002   *)
(* normalizes it                                                           *)
ApiNumber(bld, phoneNumber) ==
  IF bld = "index" THEN Trim(Or(phoneNumber, <<>>))
  ELSE normalizeNumber(phoneNumber)

(* POST /api/add-vip *)
AddVip(bld, phoneNumber, st) ==
  LET num == ApiNumber(bld, phoneNumber)
  IN  IF Truthy(num)
        THEN [st |-> [st EXCEPT !.vipContacts = @ \cup {num}], status |-> Ok]
        ELSE [st |-> st, status |-> BadRequest]

(* POST /api/remove-vip *)
RemoveVip(bld, phoneNumber, st) ==
  LET num == ApiNumber(bld, phoneNumber)
  IN  IF Truthy(num)
        THEN [st |-> [st EXCEPT !.vipContacts = @ \ {num}], status |-> Ok]
        ELSE [st |-> st, status |-> BadRequest]

(***************************************************************************)
(* handleIncomingMessage: the values it derives from the chat and contact. *)
(***************************************************************************)
ContactId(bld, contact) ==
  IF bld = "index"
    THEN Or(IF contact.hasId THEN Or(contact.serialized, contact.user)
            ELSE Undefined, UnknownContact)
    ELSE Or(IF contact.hasId THEN contact.user ELSE Undefined, Null)

(* mutant of VipExempt: the exemption is not limited to direct chats *)
VipExempt_AnyChat(bld, chat, contact, vips) ==
  IF bld = "index"
    THEN ContactId(bld, contact) \in vips
    ELSE /\ Truthy(normalizeNumber(ContactId(bld, contact)))
         /\ normalizeNumber(ContactId(bld, contact)) \in vips

VipExempt(bld, chat, contact, vips) ==
  IF bld = "index"
    THEN ~chat.isGroup /\ ContactId(bld, contact) \in vips
    ELSE ~chat.isGroup
         /\ Truthy(normalizeNumber(ContactId(bld, contact)))
         /\ normalizeNumber(ContactId(bld, contact)) \in vips

(* mutant of ReplyKey: the fallback key is used only when contact.id is     *)
(* missing, not when its fields are                                        *)
ReplyKey_FallbackOnlyWithoutId(bld, chat, contact) ==
  IF chat.isGroup THEN chat.serialized
  ELSE IF ~contact.hasId THEN UnknownContact
  ELSE IF bld = "index" THEN Or(contact.serialized, contact.user)
  ELSE contact.user

ReplyKey(bld, chat, contact) ==
  IF chat.isGroup THEN chat.serialized
  ELSE IF bld = "index" THEN ContactId(bld, contact)
  ELSE Or(ContactId(bld, contact), UnknownContact)

(* mutant of Suppressed: an entry never expires *)
Suppressed_NoExpiry(last, now) == last # NoEntry /\ last # 0

Suppressed(last, now) ==
  last # NoEntry /\ last # 0 /\ now - last < replyDelay

(* mutant of IsCommand: the author of the message is not looked at *)
IsCommand_AnyAuthor(m) == StartsWith(m.body, "/")

IsCommand(m) == m.fromMe /\ StartsWith(m.body, "/")

(* mutant of Gate: the owner's own messages are not skipped *)
Gate_NoSelfCheck(m, away) == IF ~away THEN "awayOff" ELSE "getChat"

(* mutant of Gate: the away-mode check is missing *)
Gate_NoAwayCheck(m, away) == IF m.fromMe THEN "self" ELSE "getChat"

(* `if (!this.isAwayMode) return; if (message.fromMe) return;` *)
Gate(m, away) ==
  IF ~away THEN "awayOff" ELSE IF m.fromMe THEN "self" ELSE "getChat"

(* mutant of ChatGate: archived chats are not skipped *)
ChatGate_NoArchivedCheck(chat) == "getContact"

(* `if (chat.archived) return;` *)
ChatGate(chat) == IF chat.archived THEN "archived" ELSE "getContact"

Step(h, to) ==
  IF to \in {"getChat", "getContact"} THEN [h EXCEPT !.pc = to]
  ELSE [h EXCEPT !.pc = "done", !.outcome = to]

(***************************************************************************)
(* The state machine.                                                      *)
(*   handlers  one record per 'message_create' event delivered so far:     *)
(*             pc is the await the async handler is suspended at, last and *)
(*             now are its local variables, response the command response. *)
(*   sent      the auto-replies emitted (message.reply(this.awayMessage)   *)
(*             called), with the text passed and the handler's now.        *)
(*   clock     Date.now(); ticks counts its advances.                      *)
(*   cleared   whether lastReplies.clear() has run; a handler's afterClear  *)
(*             says whether it had when the message arrived, and its       *)
(*             checkedAfterClear whether it had at the throttle check.     *)
(***************************************************************************)
NoResp ==
  [kind |-> "none", text |-> <<>>, on |-> FALSE, vips |-> {}, keys |-> 0]

NewHandler(m) ==
  [id |-> Len(handlers) + 1, msg |-> m, pc |-> "start", last |-> NoEntry,
   now |-> NoEntry, text |-> <<>>, response |-> NoResp,
   outcome |-> "pending", afterClear |-> cleared,
   checkedAfterClear |-> FALSE, escaped |-> FALSE,
   attempts |-> 0, delivered |-> 0]

Finish(h, outcome) == [h EXCEPT !.pc = "done", !.outcome = outcome]

KeyOf(h) == ReplyKey(build, h.msg.chat, h.msg.contact)

StartTime == 1000
StartTimes == {0, StartTime}
Deltas == {1, replyDelay - 1}

(* the constructor's connection fields; no event was delivered yet *)
InitConn ==
  /\ isConnected = FALSE
  /\ qrString = Null
  /\ qrHandlers = <<>>
  /\ lastEvent = "none"

(* mutant of InitClock: the process starts in away mode *)
InitClock_AwayOn ==
  /\ build \in Builds
  /\ isAwayMode = TRUE
  /\ awayMessage = DefaultMessage
  /\ vipContacts = {}
  /\ lastReplies = EmptyMap
  /\ clock \in StartTimes
  /\ ticks = 0
  /\ handlers = <<>>
  /\ sent = {}
  /\ cleared = FALSE
  /\ InitConn

InitClock ==
  /\ build \in Builds
  /\ isAwayMode = FALSE
  /\ awayMessage = DefaultMessage
  /\ vipContacts = {}
  /\ lastReplies = EmptyMap
  /\ clock \in StartTimes
  /\ ticks = 0
  /\ handlers = <<>>
  /\ sent = {}
  /\ cleared = FALSE
  /\ InitConn

Init == InitClock /\ clock = StartTime

(* client.on('message_create'): handleIncomingMessage up to its first await *)
MessageCreate(m) ==
  /\ Len(handlers) < MaxMsgs
  /\ LET h == NewHandler(m)
         r == handleBotCommand(build, m.body, Config)
     IN  IF IsCommand(m)
           THEN /\ isAwayMode' = r.st.isAwayMode
                /\ awayMessage' = r.st.awayMessage
                /\ vipContacts' = r.st.vipContacts
                /\ lastReplies' = r.st.lastReplies
                /\ cleared' = (cleared \/ r.response.kind = "cleared")
                /\ handlers' = Append(handlers,
                     [h EXCEPT !.pc = "cmdReply", !.response = r.response])
           ELSE /\ UNCHANGED <<isAwayMode, awayMessage, vipContacts,
                               lastReplies, cleared>>
                /\ handlers' = Append(handlers, Step(h, Gate(m, isAwayMode)))
  /\ UNCHANGED <<conn, build, clock, ticks, sent>>

(* `await message.getChat()` resolves: the archived check *)
GetChatResolve(i) ==
  /\ handlers[i].pc = "getChat"
  /\ handlers' = [handlers EXCEPT ![i] = Step(@, ChatGate(@.msg.chat))]
  /\ UNCHANGED <<conn, build, isAwayMode, awayMessage, vipContacts,
                 lastReplies, clock, ticks, sent, cleared>>

(* mutant of CatchResolve: the rejection is not caught *)
CatchResolve_Unhandled(h) == Finish(h, "unhandled")

(* the catch of handleIncomingMessage: the error is logged *)
CatchResolve(h) == Finish(h, "error")

(* `await message.getChat()` or `await message.getContact()` rejects *)
ResolveReject(i) ==
  /\ handlers[i].pc \in {"getChat", "getContact"}
  /\ handlers' = [handlers EXCEPT ![i] = CatchResolve(@)]
  /\ UNCHANGED <<conn, build, isAwayMode, awayMessage, vipContacts,
                 lastReplies, clock, ticks, sent, cleared>>

(* mutant of GetContactResolve: the decisions queue behind a send that is  *)
(* still pending                                                           *)
GetContactResolve_AfterPendingSends(i) ==
  /\ handlers[i].pc = "getContact"
  /\ \A k \in 1..Len(handlers) : handlers[k].pc # "reply"
  /\ LET h == handlers[i]
         last == MapGet(lastReplies, KeyOf(h))
     IN  IF VipExempt(build, h.msg.chat, h.msg.contact, vipContacts)
           THEN /\ handlers' = [handlers EXCEPT ![i] = Finish(h, "vip")]
                /\ sent' = sent
         ELSE IF Suppressed(last, clock)
           THEN /\ handlers' = [handlers EXCEPT ![i] =
                     Finish([h EXCEPT !.last = last, !.now = clock,
                                      !.checkedAfterClear = cleared],
                            "suppressed")]
                /\ sent' = sent
         ELSE /\ handlers' = [handlers EXCEPT ![i] =
                   [h EXCEPT !.pc = "reply", !.last = last, !.now = clock,
                             !.checkedAfterClear = cleared,
                             !.text = awayMessage]]
              /\ sent' = sent \cup {[id |-> h.id, key |-> KeyOf(h),
                                     text |-> awayMessage, at |-> clock]}
  /\ UNCHANGED <<conn, build, isAwayMode, awayMessage, vipContacts,
                 lastReplies, clock, ticks, cleared>>

(* `await message.getContact()` resolves: the VIP check, the throttle      *)
(* check and the call of message.reply(this.awayMessage)                   *)
GetContactResolve(i) ==
  /\ handlers[i].pc = "getContact"
  /\ LET h == handlers[i]
         last == MapGet(lastReplies, KeyOf(h))
     IN  IF VipExempt(build, h.msg.chat, h.msg.contact, vipContacts)
           THEN /\ handlers' = [handlers EXCEPT ![i] = Finish(h, "vip")]
                /\ sent' = sent
         ELSE IF Suppressed(last, clock)
           THEN /\ handlers' = [handlers EXCEPT ![i] =
                     Finish([h EXCEPT !.last = last, !.now = clock,
                                      !.checkedAfterClear = cleared],
                            "suppressed")]
                /\ sent' = sent
         ELSE /\ handlers' = [handlers EXCEPT ![i] =
                   [h EXCEPT !.pc = "reply", !.last = last, !.now = clock,
                             !.checkedAfterClear = cleared,
                             !.text = awayMessage]]
              /\ sent' = sent \cup {[id |-> h.id, key |-> KeyOf(h),
                                     text |-> awayMessage, at |-> clock]}
  /\ UNCHANGED <<conn, build, isAwayMode, awayMessage, vipContacts,
                 lastReplies, clock, ticks, cleared>>

(* mutant of ReplyResolve: the reply is not recorded *)
ReplyResolve_NoRecord(i) ==
  /\ handlers[i].pc = "reply"
  /\ handlers' = [handlers EXCEPT ![i] = Finish(@, "replied")]
  /\ UNCHANGED <<conn, build, isAwayMode, awayMessage, vipContacts,
                 lastReplies, clock, ticks, sent, cleared>>

(* `await message.reply(this.awayMessage)` resolves: lastReplies.set *)
ReplyResolve(i) ==
  /\ handlers[i].pc = "reply"
  /\ lastReplies' = MapSet(lastReplies, KeyOf(handlers[i]), handlers[i].now)
  /\ handlers' = [handlers EXCEPT ![i] = Finish(@, "replied")]
  /\ UNCHANGED <<conn, build, isAwayMode, awayMessage, vipContacts,
                 clock, ticks, sent, cleared>>

(* What a rejected send leaves in lastReplies: index.js goes to the catch  *)
(* of handleIncomingMessage; sendAutoReply of part_002 swallows the error  *)
(* and its caller goes on to lastReplies.set.                              *)
AfterFailedSend(bld, map, key, now) ==
  IF bld = "index" THEN map ELSE MapSet(map, key, now)

ReplyReject(i) ==
  /\ handlers[i].pc = "reply"
  /\ lastReplies' = AfterFailedSend(build, lastReplies, KeyOf(handlers[i]),
                                    handlers[i].now)
  /\ handlers' = [handlers EXCEPT ![i] = Finish(@, "sendFailed")]
  /\ UNCHANGED <<conn, build, isAwayMode, awayMessage, vipContacts,
                 clock, ticks, sent, cleared>>

(* `await message.reply(response)` of handleBotCommand, or the reply of    *)
(* its catch, resolves: the text is delivered                              *)
CmdReplyResolve(i) ==
  /\ handlers[i].pc \in {"cmdReply", "cmdErrReply"}
  /\ handlers' = [handlers EXCEPT ![i] =
       [Finish(@, "command") EXCEPT !.attempts = @ + 1, !.delivered = @ + 1]]
  /\ UNCHANGED <<conn, build, isAwayMode, awayMessage, vipContacts,
                 lastReplies, clock, ticks, sent, cleared>>

(* mutant of CatchReply: the catch gives up without the error reply *)
CatchReply_NoRetry(bld, h) ==
  [Finish(h, "commandFailed") EXCEPT !.attempts = @ + 1]

(* a reply of handleBotCommand rejects: the catch replies 'Error           *)
(* processing command'; when that reply rejects too, index.js swallows it  *)
(* (`try { ... } catch {}`) and part_002 lets it leave handleBotCommand    *)
(* for the catch of handleIncomingMessage                                  *)
CatchReply(bld, h) ==
  IF h.pc = "cmdReply"
    THEN [h EXCEPT !.pc = "cmdErrReply", !.attempts = @ + 1]
    ELSE [Finish(h, "commandFailed") EXCEPT
            !.attempts = @ + 1, !.escaped = (bld = "part_002")]

CmdReplyReject(i) ==
  /\ handlers[i].pc \in {"cmdReply", "cmdErrReply"}
  /\ handlers' = [handlers EXCEPT ![i] = CatchReply(build, @)]
  /\ UNCHANGED <<conn, build, isAwayMode, awayMessage, vipContacts,
                 lastReplies, clock, ticks, sent, cleared>>

(* POST /api/set-away *)
ApiSetAway(on) ==
  /\ isAwayMode' = on
  /\ UNCHANGED <<conn, build, awayMessage, vipContacts, lastReplies,
                 clock, ticks, handlers, sent, cleared>>

(* POST /api/update-message *)
ApiUpdateMessage(message) ==
  /\ awayMessage' = UpdateMessage(build, message, Config).st.awayMessage
  /\ UNCHANGED <<conn, build, isAwayMode, vipContacts, lastReplies,
                 clock, ticks, handlers, sent, cleared>>

(* POST /api/add-vip *)
ApiAddVip(phoneNumber) ==
  /\ vipContacts' = AddVip(build, phoneNumber, Config).st.vipContacts
  /\ UNCHANGED <<conn, build, isAwayMode, awayMessage, lastReplies,
                 clock, ticks, handlers, sent, cleared>>

(* POST /api/remove-vip *)
ApiRemoveVip(phoneNumber) ==
  /\ vipContacts' = RemoveVip(build, phoneNumber, Config).st.vipContacts
  /\ UNCHANGED <<conn, build, isAwayMode, awayMessage, lastReplies,
                 clock, ticks, handlers, sent, cleared>>

(* GET /api/status: the fields of its answer that are configuration *)
StatusRoute(st) ==
  [awayMode |-> st.isAwayMode, message |-> st.awayMessage,
   vipContacts |-> st.vipContacts,
   replyHistoryCount |-> MapSize(st.lastReplies)]

(* it answers with StatusRoute(Config) and assigns nothing *)
ApiStatus == UNCHANGED vars

(* POST /api/clear-history *)
ApiClearHistory ==
  /\ lastReplies' = EmptyMap
  /\ cleared' = TRUE
  /\ UNCHANGED <<conn, build, isAwayMode, awayMessage, vipContacts,
                 clock, ticks, handlers, sent>>

(* time passes *)
Tick(d) ==
  /\ ticks < MaxTicks
  /\ clock' = clock + d
  /\ ticks' = ticks + 1
  /\ UNCHANGED <<conn, build, isAwayMode, awayMessage, vipContacts,
                 lastReplies, handlers, sent, cleared>>

(***************************************************************************)
(* The intake path and the commands and API calls that steer it.  The      *)
(* replies that carry command responses are delivered here; SpecCmd has    *)
(* them fail.                                                              *)
(***************************************************************************)
IntakeMsgs ==
  { Msg(FALSE, Hi, DmChat, Alice), Msg(FALSE, Hi, DmArchived, Alice),
    Msg(FALSE, Hi, GroupChat, Alice),
    Self(BodyVipAdd), Self(BodyMsgB), Self(BodyClear) }

Next ==
  \/ \E m \in IntakeMsgs : MessageCreate(m)
  \/ \E i \in 1..Len(handlers) : GetChatResolve(i)
  \/ \E i \in 1..Len(handlers) : ResolveReject(i)
  \/ \E i \in 1..Len(handlers) : GetContactResolve(i)
  \/ \E i \in 1..Len(handlers) : ReplyResolve(i)
  \/ \E i \in 1..Len(handlers) : ReplyReject(i)
  \/ \E i \in 1..Len(handlers) : CmdReplyResolve(i)
  \/ \E on \in BOOLEAN : ApiSetAway(on)
  \/ ApiClearHistory

Spec == Init /\ [][Next]_vars

(***************************************************************************)
(* The same handlers with time passing, on direct messages of one sender:  *)
(* the reply window.  The clock may start at the epoch.                    *)
(***************************************************************************)
ClockMsgs == { Msg(FALSE, Hi, DmChat, Alice) }

NextClock ==
  \/ \E m \in ClockMsgs : MessageCreate(m)
  \/ \E i \in 1..Len(handlers) : GetChatResolve(i)
  \/ \E i \in 1..Len(handlers) : GetContactResolve(i)
  \/ \E i \in 1..Len(handlers) : ReplyResolve(i)
  \/ \E i \in 1..Len(handlers) : ReplyReject(i)
  \/ \E on \in BOOLEAN : ApiSetAway(on)
  \/ \E d \in Deltas : Tick(d)

SpecClock == InitClock /\ [][NextClock]_vars

(***************************************************************************)
(* The command interpreter with its replies failing: self-messages only.   *)
(***************************************************************************)
CmdMsgs ==
  { Self(BodyOn), Self(BodyOff), Self(BodyClear), Self(BodyVipAdd),
    Self(BodyMsgB), Self(BodyFoo), Self(BodyToggle), Self(Hi) }

NextCmd ==
  \/ \E m \in CmdMsgs : MessageCreate(m)
  \/ \E i \in 1..Len(handlers) : CmdReplyResolve(i)
  \/ \E i \in 1..Len(handlers) : CmdReplyReject(i)

SpecCmd == Init /\ [][NextCmd]_vars

(***************************************************************************)
(* The control surface next to the commands that do the same work: the     *)
(* owner types a number or a text in a self-message or posts it to the     *)
(* HTTP route.  RawNumbers are written forms of one number, Texts are      *)
(* message texts; Undefined is a request without the field.                *)
(***************************************************************************)
PlusAlice == <<"+">> \o NumAlice
SpacedAlice == <<"3", " ", "3">>
RawNumbers == { PlusAlice, SpacedAlice, <<>>, Undefined }
Texts == { <<" ", "B">>, <<" ">>, <<>>, Undefined }

(* the self-message `/<words> <arg>` *)
Typed(words, arg) == <<"/">> \o words \o <<" ">> \o arg
VipAddBody(raw) == Typed(WVip \o <<" ">> \o WAdd, raw)
VipRemoveBody(raw) == Typed(WVip \o <<" ">> \o WRemove, raw)
MsgBody(text) == Typed(WMsg, text)

SurfaceMsgs ==
  { Self(VipAddBody(PlusAlice)), Self(VipRemoveBody(PlusAlice)),
    Self(MsgBody(<<" ", "B">>)), Self(MsgBody(<<" ">>)) }

NextSurface ==
  \/ \E m \in SurfaceMsgs : MessageCreate(m)
  \/ \E i \in 1..Len(handlers) : CmdReplyResolve(i)
  \/ \E t \in Texts : ApiUpdateMessage(t)
  \/ \E r \in RawNumbers : ApiAddVip(r)
  \/ \E r \in RawNumbers : ApiRemoveVip(r)

SpecSurface == Init /\ [][NextSurface]_vars

(***************************************************************************)
(* Conversations whose identifiers meet: a direct message from Alice, whose *)
(* key is 33@c.us in index.js and 33 in part_002, groups whose             *)
(* chat.id._serialized is one of these strings, a group whose chat.id is   *)
(* missing and direct messages whose contact has no id or an id with no    *)
(* fields.                                                                 *)
(***************************************************************************)
Group(id) == [isGroup |-> TRUE, archived |-> FALSE, serialized |-> id]

KeyMsgs ==
  { Msg(FALSE, Hi, DmChat, Alice), Msg(FALSE, Hi, DmChat, Unresolved),
    Msg(FALSE, Hi, DmChat, EmptyId),
    Msg(FALSE, Hi, Group(Alice.serialized), Bob),
    Msg(FALSE, Hi, Group(Alice.user), Bob),
    Msg(FALSE, Hi, Group(Undefined), Bob) }

NextKeys ==
  \/ \E m \in KeyMsgs : MessageCreate(m)
  \/ \E i \in 1..Len(handlers) : GetChatResolve(i)
  \/ \E i \in 1..Len(handlers) : GetContactResolve(i)
  \/ \E i \in 1..Len(handlers) : ReplyResolve(i)
  \/ \E on \in BOOLEAN : ApiSetAway(on)

SpecKeys == Init /\ [][NextKeys]_vars

(***************************************************************************)
(* Who wrote the message: command texts sent by others, next to the        *)
(* owner's own messages, a command and a plain text.                       *)
(***************************************************************************)
OwnerMsgs ==
  { Msg(FALSE, BodyOff, DmChat, Alice), Msg(FALSE, BodyVipAdd, GroupChat, Bob),
    Self(BodyOff), Self(Hi) }

NextOwner ==
  \/ \E m \in OwnerMsgs : MessageCreate(m)
  \/ \E i \in 1..Len(handlers) : GetChatResolve(i)
  \/ \E i \in 1..Len(handlers) : ResolveReject(i)
  \/ \E i \in 1..Len(handlers) : GetContactResolve(i)
  \/ \E i \in 1..Len(handlers) : ReplyResolve(i)
  \/ \E i \in 1..Len(handlers) : ReplyReject(i)
  \/ \E i \in 1..Len(handlers) : CmdReplyResolve(i)
  \/ \E on \in BOOLEAN : ApiSetAway(on)

SpecOwner == Init /\ [][NextOwner]_vars

(***************************************************************************)
(* The VIP registry edited by command and by route, with a number that has *)
(* digits and one that has none.                                           *)
(***************************************************************************)
NoDigits == <<"a">>
VipNumbers == { PlusAlice, NoDigits }

VipMsgs ==
  { Self(VipAddBody(r)) : r \in VipNumbers }
    \cup { Self(VipRemoveBody(r)) : r \in VipNumbers }

NextVip ==
  \/ \E m \in VipMsgs : MessageCreate(m)
  \/ \E i \in 1..Len(handlers) : CmdReplyResolve(i)
  \/ \E r \in VipNumbers : ApiAddVip(r)
  \/ \E r \in VipNumbers : ApiRemoveVip(r)

SpecVip == Init /\ [][NextVip]_vars

(***************************************************************************)
(* normalizeNumber of part_002 on every short string over digits, a plus   *)
(* sign and a space, and on a missing and a null field: the VIP routes     *)
(* apply it to what they are sent.  The owner keeps at most MaxVips keys.  *)
(***************************************************************************)
MaxLen == 3
MaxVips == 2

Alphabet == {"3", "0", "+", " "}

RECURSIVE StringsOfLen(_)
StringsOfLen(n) ==
  IF n = 0 THEN {<<>>}
  ELSE {<<c>> \o t : c \in Alphabet, t \in StringsOfLen(n - 1)}

NormInputs ==
  UNION {StringsOfLen(n) : n \in 0..MaxLen} \cup {Undefined, Null}

InitNorm == Init /\ build = "part_002"

NextNorm ==
  \/ \E r \in NormInputs :
       Cardinality(vipContacts) < MaxVips /\ ApiAddVip(r)
  \/ \E r \in NormInputs : ApiRemoveVip(r)

SpecNorm == InitNorm /\ [][NextNorm]_vars

(***************************************************************************)
(* The direct-messages-only variant, part_001 (part_000 has the same       *)
(* handler): handleIncomingMessage returns for a message from a group      *)
(* before it resolves anything, has no commands and no archived check, and *)
(* keys senders by contact.id.user.  For a contact with an id.user its     *)
(* VIP test, key and sendAutoReply are those of part_002, which            *)
(* GetContactResolve, ReplyResolve and ReplyReject apply to any build      *)
(* other than index.  Away mode is switched by the toggle route.           *)
(***************************************************************************)
Legacy == "part_001"

(* `message.from.includes('@g.us')`: the message comes from a group chat *)
FromGroup(m) == m.chat.isGroup

LegacyGate(m, away) ==
  IF ~away THEN "awayOff"
  ELSE IF m.fromMe THEN "self"
  ELSE IF FromGroup(m) THEN "group"
  ELSE "getContact"

MessageCreateLegacy(m) ==
  /\ Len(handlers) < MaxMsgs
  /\ handlers' = Append(handlers, Step(NewHandler(m), LegacyGate(m, isAwayMode)))
  /\ UNCHANGED <<conn, build, isAwayMode, awayMessage, vipContacts,
                 lastReplies, clock, ticks, sent, cleared>>

(* POST /api/toggle-away *)
ApiToggleAway ==
  /\ isAwayMode' = ~isAwayMode
  /\ UNCHANGED <<conn, build, awayMessage, vipContacts, lastReplies,
                 clock, ticks, handlers, sent, cleared>>

GroupMsgs ==
  { Msg(FALSE, Hi, GroupChat, Alice), Msg(FALSE, Hi, GroupChat, Bob),
    Msg(FALSE, Hi, DmChat, Alice), Msg(FALSE, Hi, DmChat, Bob) }

InitLegacy ==
  /\ build = Legacy
  /\ isAwayMode = FALSE
  /\ awayMessage = DefaultMessage
  /\ vipContacts = {}
  /\ lastReplies = EmptyMap
  /\ clock = StartTime
  /\ ticks = 0
  /\ handlers = <<>>
  /\ sent = {}
  /\ cleared = FALSE
  /\ InitConn

NextLegacy ==
  \/ \E m \in GroupMsgs : MessageCreateLegacy(m)
  \/ \E i \in 1..Len(handlers) : GetContactResolve(i)
  \/ \E i \in 1..Len(handlers) : ReplyResolve(i)
  \/ \E i \in 1..Len(handlers) : ReplyReject(i)
  \/ ApiToggleAway

SpecLegacy == InitLegacy /\ [][NextLegacy]_vars

(* the same conversations in index.js and part_002 *)
NextGroups ==
  \/ \E m \in GroupMsgs : MessageCreate(m)
  \/ \E i \in 1..Len(handlers) : GetChatResolve(i)
  \/ \E i \in 1..Len(handlers) : GetContactResolve(i)
  \/ \E i \in 1..Len(handlers) : ReplyResolve(i)
  \/ \E on \in BOOLEAN : ApiSetAway(on)

SpecGroups == Init /\ [][NextGroups]_vars

(***************************************************************************)
(* Reading the state: the commands that only report, and the status route, *)
(* while the configuration and the throttle map change under them.         *)
(***************************************************************************)
StatusMsgs ==
  { Self(BodyStatus), Self(BodyHelp), Self(BodyVipList),
    Msg(FALSE, Hi, DmChat, Bob) }

NextStatus ==
  \/ \E m \in StatusMsgs : MessageCreate(m)
  \/ \E i \in 1..Len(handlers) : GetChatResolve(i)
  \/ \E i \in 1..Len(handlers) : GetContactResolve(i)
  \/ \E i \in 1..Len(handlers) : ReplyResolve(i)
  \/ \E i \in 1..Len(handlers) : CmdReplyResolve(i)
  \/ \E on \in BOOLEAN : ApiSetAway(on)
  \/ ApiAddVip(PlusAlice)
  \/ ApiUpdateMessage(<<"B">>)
  \/ ApiStatus

SpecStatus == Init /\ [][NextStatus]_vars

(***************************************************************************)
(* The collaborator's calls return: every pending getChat, getContact and  *)
(* reply resolves in the end (weak fairness of the three steps), and away  *)
(* mode, once on, stays on.                                                *)
(***************************************************************************)
LiveMsgs ==
  { Msg(FALSE, Hi, DmChat, Alice), Msg(FALSE, Hi, DmArchived, Bob),
    Msg(FALSE, Hi, GroupChat, Bob), Self(Hi) }

ChatResolves == \E i \in 1..Len(handlers) : GetChatResolve(i)
ContactResolves == \E i \in 1..Len(handlers) : GetContactResolve(i)
ReplyResolves == \E i \in 1..Len(handlers) : ReplyResolve(i)

NextLive ==
  \/ \E m \in LiveMsgs : MessageCreate(m)
  \/ ChatResolves
  \/ ContactResolves
  \/ ReplyResolves
  \/ ApiSetAway(TRUE)

SpecLive ==
  /\ Init
  /\ [][NextLive]_vars
  /\ WF_vars(ChatResolves)
  /\ WF_vars(ContactResolves)
  /\ WF_vars(ReplyResolves)

(***************************************************************************)
(* Vocabulary of the claims.                                               *)
(***************************************************************************)
H == 1..Len(handlers)

Arrival == Len(handlers') = Len(handlers) + 1

Arrived == handlers'[Len(handlers')]

Moved(i) == i \in H /\ handlers'[i] # handlers[i]

Emits(i) == i \in H /\ handlers[i].pc = "getContact" /\ handlers'[i].pc = "reply"

EmittedFor(i) == \E r \in sent : r.id = i

(* C1: two inbound messages on one conversation key, handled less than the *)
(* reply window apart with no clear, never both get an auto-reply that is  *)
(* delivered.                                                              *)
C1_AtMostOneReplyPerWindow ==
  ~cleared =>
    \A i, j \in H :
      ( /\ i # j
        /\ handlers[i].outcome = "replied"
        /\ handlers[j].outcome = "replied"
        /\ KeyOf(handlers[i]) = KeyOf(handlers[j])
        /\ handlers[j].now - handlers[i].now < replyDelay
        /\ handlers[i].now - handlers[j].now < replyDelay ) => FALSE

(* C2: a message that is not a command and arrives while isAwayMode is     *)
(* false ends at once with no auto-reply and lastReplies unchanged,        *)
(* whoever sent it, whatever the chat and whatever lastReplies holds.      *)
C2_AwayOffNoReply ==
  [][ (Arrival /\ ~isAwayMode /\ ~IsCommand(Arrived.msg)) =>
        /\ Arrived.pc = "done"
        /\ Arrived.outcome = "awayOff"
        /\ sent' = sent
        /\ lastReplies' = lastReplies ]_vars

C2_Witness ==
  \E i \in H :
    /\ handlers[i].outcome = "awayOff"
    /\ ~handlers[i].msg.fromMe
    /\ KeyOf(handlers[i]) \in DOMAIN lastReplies
    /\ ~EmittedFor(i)

(* C3: when the send of an auto-reply is rejected, lastReplies is left as  *)
(* it was.                                                                 *)
C3_FailedSendNotRecorded ==
  [][ \A i \in H :
        (handlers[i].pc = "reply" /\ handlers'[i].outcome = "sendFailed")
          => lastReplies' = lastReplies ]_vars

(* C4: a handler that reached the throttle check was suppressed exactly    *)
(* when an entry existed for its key and now - entry < replyDelay.         *)
C4_SuppressedIffInWindow ==
  \A i \in H :
    handlers[i].now # NoEntry =>
      ( handlers[i].outcome = "suppressed"
          <=> ( /\ handlers[i].last # NoEntry
                /\ handlers[i].now - handlers[i].last < replyDelay ) )

(* C5: no auto-reply is emitted to a direct message whose sender's number  *)
(* is in the VIP registry.                                                 *)
C5_VipDirectNoReply ==
  [][ \A i \in H :
        ( /\ Emits(i)
          /\ ~handlers[i].msg.chat.isGroup
          /\ handlers[i].msg.contact.user \in vipContacts ) => FALSE ]_vars

(* C6: a message in a group chat that is not archived and whose key has no *)
(* entry in lastReplies gets the auto-reply when its contact resolves,     *)
(* whether or not its sender is a VIP.                                     *)
C6_GroupIgnoresVip ==
  [][ \A i \in H :
        ( /\ handlers[i].pc = "getContact"
          /\ Moved(i)
          /\ handlers'[i].outcome # "error"
          /\ handlers[i].msg.chat.isGroup
          /\ KeyOf(handlers[i]) \notin DOMAIN lastReplies )
          => /\ handlers'[i].pc = "reply"
             /\ \E r \in sent' \ sent : r.id = i ]_vars

C6_Witness ==
  \E i \in H :
    /\ handlers[i].msg.chat.isGroup
    /\ handlers[i].pc = "reply"
    /\ EmittedFor(i)
    /\ handlers[i].msg.contact.user \in vipContacts

(* C7: a message of an archived chat is never replied to, and no step of   *)
(* its handler changes lastReplies.                                        *)
C7_ArchivedNoReply ==
  [][ \A i \in 1..Len(handlers') :
        (handlers'[i].msg.chat.archived /\ ~handlers'[i].msg.fromMe) =>
          /\ \A r \in sent' : r.id # i
          /\ handlers'[i].outcome \notin {"replied", "sendFailed", "suppressed"}
          /\ (i \notin H \/ Moved(i)) => lastReplies' = lastReplies ]_vars

C7_Witness ==
  \E i \in H :
    /\ handlers[i].outcome = "archived"
    /\ ~handlers[i].msg.chat.isGroup
    /\ isAwayMode
    /\ handlers[i].msg.contact.user \notin vipContacts
    /\ KeyOf(handlers[i]) \notin DOMAIN lastReplies

(* C8: a message that arrives after a clear is suppressed only when some   *)
(* other message on its key passed the throttle check after the clear and  *)
(* was replied to; otherwise it is the next eligible message and gets the  *)
(* auto-reply.                                                             *)
C8_ClearThenReply ==
  \A i \in H :
    (handlers[i].afterClear /\ handlers[i].outcome = "suppressed") =>
      \E j \in H :
        /\ j # i
        /\ handlers[j].checkedAfterClear
        /\ KeyOf(handlers[j]) = KeyOf(handlers[i])
        /\ EmittedFor(j)

(* C9: the text of an auto-reply is awayMessage as it is when the reply is *)
(* emitted, and `/msg <text>` with a non-empty text makes awayMessage      *)
(* that text.                                                              *)
MsgPrefix == <<"/", "m", "s", "g", " ">>

MsgText(body) == SubSeq(Trim(body), Len(MsgPrefix) + 1, Len(Trim(body)))

IsMsgCommand(m) ==
  /\ IsCommand(m)
  /\ Len(Trim(m.body)) > Len(MsgPrefix)
  /\ ToLowerCase(SubSeq(Trim(m.body), 1, Len(MsgPrefix))) = MsgPrefix

C9_ReplyUsesAwayMessage ==
  [][ /\ \A r \in sent' \ sent : r.text = awayMessage /\ r.text = awayMessage'
      /\ (Arrival /\ IsMsgCommand(Arrived.msg))
           => awayMessage' = MsgText(Arrived.msg.body) ]_vars

C9_Witness ==
  \E r \in sent : r.text = <<"B", " ", "s">> /\ awayMessage = r.text

(* C10: the step that suppresses a direct message sends nothing and leaves *)
(* lastReplies as it was: the key's entry is still the time an earlier     *)
(* handler that replied sampled, less than replyDelay ago.                 *)
C10_SuppressedChangesNothing ==
  [][ \A i \in H :
        ( /\ handlers[i].pc = "getContact"
          /\ handlers'[i].outcome = "suppressed"
          /\ ~handlers[i].msg.chat.isGroup )
          => /\ sent' = sent
             /\ lastReplies' = lastReplies
             /\ KeyOf(handlers[i]) \in DOMAIN lastReplies
             /\ lastReplies'[KeyOf(handlers[i])] = handlers'[i].last
             /\ clock - handlers'[i].last < replyDelay
             /\ \E j \in H : /\ j # i
                             /\ EmittedFor(j)
                             /\ handlers[j].now = handlers'[i].last ]_vars

C10_Witness ==
  \E i \in H :
    /\ handlers[i].outcome = "suppressed"
    /\ handlers[i].now > handlers[i].last
    /\ lastReplies[KeyOf(handlers[i])] = handlers[i].last

(***************************************************************************)
(* C11: every member of the VIP registry is a non-empty digits-only        *)
(* string, whichever way it was inserted (command or HTTP route), so that  *)
(* the written forms of one number are one entry.                          *)
(***************************************************************************)
DigitsOnly(s) == s # <<>> /\ \A k \in 1..Len(s) : s[k] \in Digits

C11_VipRegistryDigitsOnly ==
  \A v \in vipContacts : DigitsOnly(v)

(***************************************************************************)
(* C12: a self-message whose command token is none of the fixed commands   *)
(* gets a response that names the token (in lower case, as the switch sees *)
(* it), changes neither awayMode, awayMessage, the VIP registry nor the    *)
(* throttle map, and raises nothing.                                       *)
(***************************************************************************)
KnownCommands == {WHelp, WStatus, WOn, WOff, WToggle, WMsg, WVip, WClear}

RECURSIVE UpToSpace(_)
UpToSpace(s) ==
  IF s = <<>> \/ Head(s) = " " THEN <<>>
  ELSE <<Head(s)>> \o UpToSpace(Tail(s))

CommandToken(body) == ToLowerCase(UpToSpace(Tail(Trim(body))))

IsUnknownCommand(m) ==
  IsCommand(m) /\ CommandToken(m.body) \notin KnownCommands

C12_UnknownCommandReported ==
  [][ (Arrival /\ IsUnknownCommand(Arrived.msg)) =>
        /\ Arrived.pc = "cmdReply"
        /\ Arrived.response.kind = "unknown"
        /\ Arrived.response.text = CommandToken(Arrived.msg.body)
        /\ ~Arrived.escaped
        /\ UNCHANGED <<isAwayMode, awayMessage, vipContacts, lastReplies>>
    ]_vars

C12_Witness ==
  \E i \in H :
    /\ IsUnknownCommand(handlers[i].msg)
    /\ handlers[i].outcome = "command"
    /\ handlers[i].delivered = 1
    /\ isAwayMode

(***************************************************************************)
(* C13: every self-authored command ends with exactly one response         *)
(* delivered as a reply to it, also when a reply attempt fails.            *)
(***************************************************************************)
Finished(i) == handlers[i].pc = "done"

C13_ExactlyOneResponse ==
  \A i \in H :
    (IsCommand(handlers[i].msg) /\ Finished(i)) => handlers[i].delivered = 1

(* C13 as the code keeps it: a command never gets two responses, and it    *)
(* gets one unless the reply of the response and the reply of the error    *)
(* text that follows have both failed.                                     *)
C13_OneResponseUnlessBothRepliesFail ==
  \A i \in H :
    IsCommand(handlers[i].msg) =>
      /\ handlers[i].delivered <= 1
      /\ handlers[i].attempts <= 2
      /\ Finished(i) =>
            \/ handlers[i].delivered = 1
            \/ /\ handlers[i].attempts = 2
               /\ handlers[i].outcome = "commandFailed"

C13_Witness ==
  \E i \in H :
    /\ IsCommand(handlers[i].msg)
    /\ Finished(i)
    /\ handlers[i].attempts = 2
    /\ handlers[i].delivered = 1

(***************************************************************************)
(* C14: no error leaves handleBotCommand, whatever fails while a command   *)
(* is parsed, applied or answered, the reply of the error text included.   *)
(***************************************************************************)
C14_NoErrorEscapes == \A i \in H : ~handlers[i].escaped

(***************************************************************************)
(* C15: a control-surface operation validates like the command that does   *)
(* the same work and has the same effect: for every raw number the route   *)
(* add-vip and `/vip add`, and remove-vip and `/vip remove`, leave the     *)
(* same registry and accept or reject alike; for every text the route      *)
(* update-message and `/msg` store the same awayMessage.                   *)
(***************************************************************************)
Strings(S) == S \ {Undefined}

SameVipOutcome(viaApi, viaCmd, accepted) ==
  /\ viaApi.st.vipContacts = viaCmd.st.vipContacts
  /\ (viaApi.status = Ok) <=> (viaCmd.response.kind = accepted)

C15_ControlSurfaceMatchesCommands ==
  /\ \A raw \in Strings(RawNumbers) :
       /\ SameVipOutcome(AddVip(build, raw, Config),
                         handleBotCommand(build, VipAddBody(raw), Config),
                         "vipAdded")
       /\ SameVipOutcome(RemoveVip(build, raw, Config),
                         handleBotCommand(build, VipRemoveBody(raw), Config),
                         "vipRemoved")
  /\ \A text \in Strings(Texts) :
       UpdateMessage(build, text, Config).st.awayMessage
         = handleBotCommand(build, MsgBody(text), Config).st.awayMessage

(***************************************************************************)
(* C16: awayMessage is a non-empty string in every reachable state; `/msg` *)
(* with no text, and update-message with a missing, empty or blank text,   *)
(* answer with an error and leave awayMessage as it is.                    *)
(***************************************************************************)
IsBareMsgCommand(m) ==
  IsCommand(m) /\ ToLowerCase(Trim(m.body)) = <<"/">> \o WMsg

Blank(text) == ~Truthy(text) \/ Trim(text) = <<>>

C16_AwayMessageNeverEmpty ==
  /\ [](Truthy(awayMessage))
  /\ [](\A text \in Texts :
          Blank(text) =>
            /\ UpdateMessage(build, text, Config).status = BadRequest
            /\ UpdateMessage(build, text, Config).st = Config)
  /\ [][ (Arrival /\ IsBareMsgCommand(Arrived.msg)) =>
            /\ Arrived.response.kind = "msgMissing"
            /\ awayMessage' = awayMessage ]_vars

C16_Witness ==
  /\ awayMessage # DefaultMessage
  /\ \E i \in H :
       /\ IsBareMsgCommand(handlers[i].msg)
       /\ handlers[i].response.kind = "msgMissing"
       /\ handlers[i].outcome = "command"

(***************************************************************************)
(* C17: the throttle keys of direct conversations and of groups never      *)
(* collide: a message is suppressed only by an entry that a reply to a     *)
(* conversation of its own kind recorded, also when a sender's key and a   *)
(* group's identifier are the same string or the identifier is missing.    *)
(***************************************************************************)
IsGroupHandler(i) == handlers[i].msg.chat.isGroup

C17_KeySpacesDisjoint ==
  \A i \in H :
    handlers[i].outcome = "suppressed" =>
      \E j \in H :
        /\ j # i
        /\ handlers[j].outcome = "replied"
        /\ handlers[j].now = handlers[i].last
        /\ IsGroupHandler(j) = IsGroupHandler(i)

(***************************************************************************)
(* C18: a throttle entry is created or overwritten only by a successful    *)
(* auto-reply to its key, and entries go away only by the explicit reset,  *)
(* which removes them all; nothing else changes lastReplies.               *)
(***************************************************************************)
RecordsReply(i) ==
  /\ i \in H
  /\ handlers[i].pc = "reply"
  /\ handlers'[i].outcome = "replied"
  /\ lastReplies' = MapSet(lastReplies, KeyOf(handlers[i]), handlers[i].now)

Resets ==
  /\ lastReplies' = EmptyMap
  /\ \/ handlers' = handlers
     \/ Arrival /\ Arrived.response.kind = "cleared"

ThrottleFrame ==
  lastReplies' # lastReplies => (Resets \/ \E i \in H : RecordsReply(i))

C18_ThrottleChangesOnlyByReplyOrReset == [][ThrottleFrame]_vars

(***************************************************************************)
(* C19: only the owner's messages are commands: no step of the handling of *)
(* a message that is not from the owner changes awayMode, awayMessage or   *)
(* the VIP registry, whatever its body (`/off` included); the only thing   *)
(* it may change is the throttle entry of its own conversation key.        *)
(***************************************************************************)
HandledNow(i) == i \notin H \/ handlers'[i] # handlers[i]

OnlyOwnEntry(h) ==
  \A k \in (DOMAIN lastReplies \cup DOMAIN lastReplies') \ {KeyOf(h)} :
    MapGet(lastReplies', k) = MapGet(lastReplies, k)

C19_OthersNeverCommand ==
  [][ \A i \in 1..Len(handlers') :
        (~handlers'[i].msg.fromMe /\ HandledNow(i)) =>
          /\ UNCHANGED <<isAwayMode, awayMessage, vipContacts>>
          /\ OnlyOwnEntry(handlers'[i]) ]_vars

C19_Witness ==
  \E i \in H :
    /\ ~handlers[i].msg.fromMe
    /\ handlers[i].msg.body = BodyOff
    /\ handlers[i].outcome = "replied"
    /\ isAwayMode
    /\ KeyOf(handlers[i]) \in DOMAIN lastReplies

(***************************************************************************)
(* C20: no auto-reply is ever sent in response to a message of the owner,  *)
(* and a message of the owner that is not a command ends at once with no   *)
(* reply, no error and no change of the configuration or of the throttle   *)
(* map, with away mode on or off.                                          *)
(***************************************************************************)
ConfigUnchanged ==
  UNCHANGED <<isAwayMode, awayMessage, vipContacts, lastReplies>>

C20_OwnTextIgnored ==
  /\ [](\A r \in sent : ~handlers[r.id].msg.fromMe)
  /\ [][ (Arrival /\ Arrived.msg.fromMe /\ ~IsCommand(Arrived.msg)) =>
            /\ Arrived.pc = "done"
            /\ Arrived.outcome \in {"awayOff", "self"}
            /\ Arrived.delivered = 0
            /\ ~Arrived.escaped
            /\ sent' = sent
            /\ ConfigUnchanged ]_vars

C20_Witness ==
  \E i, j \in H :
    /\ handlers[i].msg = Self(Hi)
    /\ handlers[j].msg = Self(Hi)
    /\ handlers[i].outcome = "awayOff"
    /\ handlers[j].outcome = "self"

(***************************************************************************)
(* C21: when resolving the chat or the contact of an inbound message       *)
(* fails, the error is caught: the handler ends, nothing is sent, neither  *)
(* the throttle map nor the configuration changes, and a later message is  *)
(* still handled.                                                          *)
(***************************************************************************)
ResolveFails(i) ==
  /\ i \in H
  /\ handlers[i].pc \in {"getChat", "getContact"}
  /\ handlers'[i].pc = "done"
  /\ handlers'[i].outcome \notin {"archived", "vip", "suppressed"}

C21_ResolveErrorCaught ==
  [][ \A i \in H :
        ResolveFails(i) =>
          /\ handlers'[i].outcome = "error"
          /\ ~handlers'[i].escaped
          /\ sent' = sent
          /\ ConfigUnchanged
          /\ \A j \in H \ {i} : handlers'[j] = handlers[j] ]_vars

C21_Witness ==
  \E i, j \in H :
    /\ i < j
    /\ handlers[i].outcome = "error"
    /\ ~EmittedFor(i)
    /\ handlers[j].msg = handlers[i].msg
    /\ handlers[j].outcome = "replied"

(***************************************************************************)
(* C22: the direct senders whose contact identifier cannot be resolved     *)
(* share the one throttle key unknown-contact: once one of them got an     *)
(* auto-reply, a message of another of them within the window is           *)
(* suppressed, and the decision about it does not fail.                    *)
(***************************************************************************)
IsUnresolvedDm(m) ==
  /\ ~m.fromMe
  /\ ~m.chat.isGroup
  /\ ~Truthy(m.contact.serialized)
  /\ ~Truthy(m.contact.user)

Decides(j) ==
  j \in H /\ handlers[j].pc = "getContact" /\ handlers'[j] # handlers[j]

C22_UnresolvedShareOneKey ==
  [][ \A i, j \in H :
        ( /\ IsUnresolvedDm(handlers[i].msg)
          /\ IsUnresolvedDm(handlers[j].msg)
          /\ handlers[i].msg.contact # handlers[j].msg.contact
          /\ handlers[i].outcome = "replied"
          /\ Decides(j) ) =>
            /\ handlers'[j].outcome = "suppressed"
            /\ handlers'[j].last = handlers[i].now
            /\ KeyOf(handlers[j]) = UnknownContact
            /\ sent' = sent ]_vars

C22_Witness ==
  \E i, j \in H :
    /\ handlers[i].msg.contact = Unresolved
    /\ handlers[j].msg.contact = EmptyId
    /\ handlers[i].outcome = "replied"
    /\ handlers[j].outcome = "suppressed"

(***************************************************************************)
(* C23: `vip add` and `vip remove`, by command and by route, answer a      *)
(* number without digits with an error and leave the registry as it is,    *)
(* and confirm a number with digits with its normalized key.               *)
(***************************************************************************)
VipEdits == {<<WAdd, "vipAdded">>, <<WRemove, "vipRemoved">>}

(* the number typed after `/vip <sub> ` *)
VipArgument(m, sub) ==
  SubSeq(m.body, Len(VipAddBody(<<>>)) + Len(sub) - Len(WAdd) + 1, Len(m.body))

IsVipEdit(m, sub) ==
  IsCommand(m) /\ m.body = Typed(WVip \o <<" ">> \o sub, VipArgument(m, sub))

VipAnswer(kind, text, raw, accepted) ==
  IF DigitsOf(raw) = <<>> THEN kind = "vipUsage"
  ELSE kind = accepted /\ text = DigitsOf(raw)

C23_VipEditValidates ==
  /\ [][ \A e \in VipEdits :
            (Arrival /\ IsVipEdit(Arrived.msg, e[1])) =>
              /\ VipAnswer(Arrived.response.kind, Arrived.response.text,
                           VipArgument(Arrived.msg, e[1]), e[2])
              /\ DigitsOf(VipArgument(Arrived.msg, e[1])) = <<>>
                   => vipContacts' = vipContacts ]_vars
  /\ [](\A r \in VipNumbers :
          DigitsOf(r) = <<>> =>
            /\ AddVip(build, r, Config).status = BadRequest
            /\ RemoveVip(build, r, Config).status = BadRequest
            /\ AddVip(build, r, Config).st = Config
            /\ RemoveVip(build, r, Config).st = Config)

(***************************************************************************)
(* C24: the VIP registry operations are set operations: adding a key that  *)
(* is present changes nothing, removing an absent key succeeds and changes *)
(* nothing, adding an absent key and removing it restores the registry,    *)
(* and neither touches awayMode, awayMessage or the throttle map.          *)
(***************************************************************************)
CmdAdd(r, st) == handleBotCommand(build, VipAddBody(r), st)
CmdRemove(r, st) == handleBotCommand(build, VipRemoveBody(r), st)
ApiAdd(r, st) == AddVip(build, r, st)
ApiRemove(r, st) == RemoveVip(build, r, st)

CmdAccepted(res) == res.response.kind \in {"vipAdded", "vipRemoved"}
ApiAccepted(res) == res.status = Ok

OnlyVipsDiffer(st1, st2) == [st1 EXCEPT !.vipContacts = {}] =
                            [st2 EXCEPT !.vipContacts = {}]

SetAlgebra(Add(_, _), Remove(_, _), Accepted(_), r, st) ==
  LET added == Add(r, st).st
      removed == Remove(r, st).st
  IN  Accepted(Add(r, st)) =>
        /\ Add(r, added).st = added
        /\ Accepted(Remove(r, removed)) /\ Remove(r, removed).st = removed
        /\ added # st => Remove(r, added).st = st
        /\ removed \in {st, Remove(r, added).st}
        /\ st.vipContacts \subseteq added.vipContacts
        /\ removed.vipContacts \subseteq st.vipContacts
        /\ OnlyVipsDiffer(added, st) /\ OnlyVipsDiffer(removed, st)

C24_VipSetAlgebra ==
  /\ [](\A r \in VipNumbers :
          /\ SetAlgebra(CmdAdd, CmdRemove, CmdAccepted, r, Config)
          /\ SetAlgebra(ApiAdd, ApiRemove, ApiAccepted, r, Config))
  /\ [][ vipContacts' # vipContacts =>
            UNCHANGED <<isAwayMode, awayMessage, lastReplies>> ]_vars

C24_Witness ==
  \E i, j \in H :
    /\ i < j
    /\ handlers[i].response.kind = "vipAdded"
    /\ handlers[j].response.kind = "vipRemoved"
    /\ handlers[i].response.text = handlers[j].response.text
    /\ handlers[i].response.vips # {}
    /\ handlers[j].response.vips = {}
    /\ vipContacts = {}

(***************************************************************************)
(* C25: `/on` makes awayMode true and `/off` makes it false whatever it    *)
(* was, `/toggle` negates it, so two toggles restore it, the toggle        *)
(* confirmation reports the value after the command, and none of the three *)
(* changes awayMessage, the VIP registry or the throttle map.              *)
(***************************************************************************)
Types(m, word) == IsCommand(m) /\ CommandToken(m.body) = word

Run(body, st) == handleBotCommand(build, body, st).st

C25_OnOffToggle ==
  /\ [][ Arrival =>
            /\ Types(Arrived.msg, WOn) =>
                  isAwayMode' /\ Arrived.response.kind = "on"
            /\ Types(Arrived.msg, WOff) =>
                  ~isAwayMode' /\ Arrived.response.kind = "off"
            /\ Types(Arrived.msg, WToggle) =>
                  /\ isAwayMode' = ~isAwayMode
                  /\ Arrived.response.kind = "toggle"
                  /\ Arrived.response.on = isAwayMode'
            /\ (\E w \in {WOn, WOff, WToggle} : Types(Arrived.msg, w)) =>
                  UNCHANGED <<awayMessage, vipContacts, lastReplies>> ]_vars
  /\ [](/\ Run(BodyOn, Run(BodyOn, Config)) = Run(BodyOn, Config)
        /\ Run(BodyOff, Run(BodyOff, Config)) = Run(BodyOff, Config)
        /\ Run(BodyToggle, Run(BodyToggle, Config)) = Config)

C25_Witness ==
  \E i, j \in H :
    /\ i < j
    /\ handlers[i].msg.body = BodyToggle
    /\ handlers[j].msg.body = BodyToggle
    /\ handlers[i].response.on
    /\ ~handlers[j].response.on
    /\ ~isAwayMode

(***************************************************************************)
(* C26: normalize strips every character that is not a digit, gives null   *)
(* for a null or empty input and for an input without digits, and on an    *)
(* input with a digit normalizing twice is normalizing once.               *)
(***************************************************************************)
IsDigit(c) == c \in Digits

HasDigit(x) == Truthy(x) /\ \E k \in 1..Len(x) : IsDigit(x[k])

C26_NormalizeStripsAndIsIdempotent ==
  /\ \A x \in NormInputs :
       IF HasDigit(x)
         THEN /\ normalizeNumber(x) = SelectSeq(x, IsDigit)
              /\ normalizeNumber(normalizeNumber(x)) = normalizeNumber(x)
         ELSE normalizeNumber(x) = Null
  /\ \A v \in vipContacts : HasDigit(v) /\ normalizeNumber(v) = v

C26_Witness ==
  /\ build = "part_002"
  /\ vipContacts = {<<"3", "0">>, <<"0", "3", "3">>}

(***************************************************************************)
(* C27: groups get auto-replies and are throttled per group, not per       *)
(* sender: with away mode on a message in a group that is not archived is  *)
(* taken up, it gets the reply when the group has no entry and is          *)
(* suppressed when the group has one, whoever sent it, and a message is    *)
(* suppressed only by the entry of its own conversation key.               *)
(***************************************************************************)
GroupTakenUp ==
  (Arrival /\ isAwayMode /\ ~Arrived.msg.fromMe /\ Arrived.msg.chat.isGroup
     /\ ~Arrived.msg.chat.archived) => Arrived.pc # "done"

GroupDecidedByGroupEntry(j) ==
  (Decides(j) /\ IsGroupHandler(j)) =>
    /\ KeyOf(handlers[j]) = handlers[j].msg.chat.serialized
    /\ IF KeyOf(handlers[j]) \in DOMAIN lastReplies
         THEN handlers'[j].outcome = "suppressed"
         ELSE handlers'[j].pc = "reply" /\ EmittedFor(j)'

SuppressedByOwnKey(j) ==
  (Decides(j) /\ handlers'[j].outcome = "suppressed") =>
    /\ KeyOf(handlers[j]) \in DOMAIN lastReplies
    /\ handlers'[j].last = lastReplies[KeyOf(handlers[j])]

C27_GroupsThrottledPerGroup ==
  [][ /\ GroupTakenUp
      /\ \A j \in H : GroupDecidedByGroupEntry(j) /\ SuppressedByOwnKey(j)
    ]_vars

(***************************************************************************)
(* C28: a send that is slow or never completes does not hold up the other  *)
(* messages: while a handler waits on its reply, a new message is still    *)
(* taken in, a message of another conversation key can take its next step, *)
(* and its decision is the one it would get alone: with no entry for its   *)
(* key it is replied to.                                                   *)
(***************************************************************************)
Waiting(i) == handlers[i].pc = "reply"

OtherKeyWaits(j) ==
  \E i \in H : Waiting(i) /\ KeyOf(handlers[i]) # KeyOf(handlers[j])

C28_SlowSendBlocksNobody ==
  /\ [](\A j \in H :
          OtherKeyWaits(j) =>
            /\ handlers[j].pc = "getChat" => ENABLED GetChatResolve(j)
            /\ handlers[j].pc = "getContact" => ENABLED GetContactResolve(j)
            /\ handlers[j].pc = "reply" => ENABLED ReplyResolve(j))
  /\ []((Len(handlers) < MaxMsgs /\ \E i \in H : Waiting(i)) =>
          \A m \in GroupMsgs : ENABLED MessageCreate(m))
  /\ [][ \A j \in H :
            ( /\ OtherKeyWaits(j)
              /\ Decides(j)
              /\ KeyOf(handlers[j]) \notin DOMAIN lastReplies
              /\ ~VipExempt(build, handlers[j].msg.chat,
                            handlers[j].msg.contact, vipContacts) ) =>
                handlers'[j].pc = "reply" /\ EmittedFor(j)' ]_vars

C28_Witness ==
  \E i, j \in H :
    /\ i < j
    /\ Waiting(i)
    /\ KeyOf(handlers[i]) # KeyOf(handlers[j])
    /\ handlers[j].outcome = "replied"

(***************************************************************************)
(* C29: the status command and the status route report the state as it    *)
(* is: awayMode, the current awayMessage, the VIP keys (their number in    *)
(* the command) and the number of throttle entries, which is the size of   *)
(* the throttle map; `help`, `status` and `vip list` change neither the    *)
(* configuration nor the throttle map.                                     *)
(***************************************************************************)
IsVipList(m) == IsCommand(m) /\ ToLowerCase(Trim(m.body)) = BodyVipList

ReportsOnly(m) ==
  Types(m, WHelp) \/ Types(m, WStatus) \/ IsVipList(m)

C29_StatusReportsState ==
  /\ [][ Arrival =>
            /\ Types(Arrived.msg, WStatus) =>
                  /\ Arrived.response.kind = "status"
                  /\ Arrived.response.on = isAwayMode
                  /\ Arrived.response.text = awayMessage
                  /\ Cardinality(Arrived.response.vips)
                       = Cardinality(vipContacts)
                  /\ Arrived.response.keys = Cardinality(DOMAIN lastReplies)
            /\ IsVipList(Arrived.msg) =>
                  /\ Arrived.response.kind = "vipList"
                  /\ Arrived.response.vips = vipContacts
            /\ ReportsOnly(Arrived.msg) => ConfigUnchanged ]_vars
  /\ [](StatusRoute(Config) =
          [awayMode |-> isAwayMode, message |-> awayMessage,
           vipContacts |-> vipContacts,
           replyHistoryCount |-> Cardinality(DOMAIN lastReplies)])

C29_Witness ==
  \E i \in H :
    /\ handlers[i].msg.body = BodyStatus
    /\ handlers[i].response.kind = "status"
    /\ handlers[i].response.on
    /\ handlers[i].response.keys = 1
    /\ Cardinality(handlers[i].response.vips) = 1
    /\ handlers[i].response.text = <<"B">>

(***************************************************************************)
(* C30: awayMode is true at the instant an auto-reply is emitted, in every *)
(* interleaving: a handler that passed the away-mode check sends nothing   *)
(* when away mode has been turned off before it sends.                     *)
(***************************************************************************)
C30_AwayModeOnAtEmission ==
  [][ \A i \in H : Emits(i) => isAwayMode ]_vars

(***************************************************************************)
(* C31: the handling of every inbound message eventually completes, with   *)
(* no action or with the reply sent and the throttle entry recorded, when  *)
(* the collaborator's calls return; a message that is not the owner's, in  *)
(* a conversation that is not archived, from a sender who is not a VIP,    *)
(* whose key has no throttle entry when it arrives with away mode on,      *)
(* eventually gets exactly one auto-reply and an entry for its key.        *)
(***************************************************************************)
Slots == 1..MaxMsgs

NoAction == {"awayOff", "self", "archived", "vip", "suppressed"}

RepliesTo(i) == {r \in sent : r.id = i}

RepliedAndRecorded(i) ==
  /\ i \in H
  /\ handlers[i].outcome = "replied"
  /\ Cardinality(RepliesTo(i)) = 1
  /\ KeyOf(handlers[i]) \in DOMAIN lastReplies

Completed(i) ==
  /\ i \in H
  /\ Finished(i)
  /\ \/ handlers[i].outcome \in NoAction /\ RepliesTo(i) = {}
     \/ RepliedAndRecorded(i)

EligibleOnArrival(i) ==
  /\ i \in H
  /\ handlers[i].pc = "getChat"
  /\ ~handlers[i].msg.fromMe
  /\ ~handlers[i].msg.chat.archived
  /\ ~VipExempt(build, handlers[i].msg.chat, handlers[i].msg.contact,
                vipContacts)
  /\ KeyOf(handlers[i]) \notin DOMAIN lastReplies

C31_EligibleOnArrivalGetsReply ==
  /\ \A i \in Slots : (i \in H) ~> Completed(i)
  /\ \A i \in Slots : EligibleOnArrival(i) ~> RepliedAndRecorded(i)

(* C31 as the code keeps it: the handling of every message completes, and  *)
(* the message gets its one reply and its entry when its key has no        *)
(* throttle entry at the moment its handler makes the suppression check,   *)
(* which is after the chat and the contact were resolved, not at arrival.  *)
PassesCheckWithoutEntry(j) ==
  /\ Decides(j)
  /\ KeyOf(handlers[j]) \notin DOMAIN lastReplies
  /\ ~VipExempt(build, handlers[j].msg.chat, handlers[j].msg.contact,
                vipContacts)

C31_EligibleAtCheckGetsReply ==
  /\ \A i \in Slots : (i \in H) ~> Completed(i)
  /\ [][ \A j \in H :
            PassesCheckWithoutEntry(j) =>
              /\ handlers'[j].pc = "reply"
              /\ Cardinality(RepliesTo(j)') = 1 ]_vars
  /\ \A i \in Slots :
       (i \in H /\ handlers[i].pc = "reply") ~> RepliedAndRecorded(i)

C31_Witness ==
  \E i, j \in H :
    /\ RepliedAndRecorded(i)
    /\ handlers[j].outcome = "archived"
    /\ Completed(j)

(***************************************************************************)
(* C32: once a clear has completed, a conversation key has a throttle      *)
(* entry only if a message on that key passed its suppression check after  *)
(* the clear; a reply that was in flight when the clear ran does not       *)
(* re-create an entry.                                                     *)
(***************************************************************************)
CheckedAfterClear(i, k) ==
  /\ KeyOf(handlers[i]) = k
  /\ handlers[i].checkedAfterClear
  /\ handlers[i].now = lastReplies[k]

C32_NoEntryFromBeforeClear ==
  cleared => \A k \in DOMAIN lastReplies : \E i \in H : CheckedAfterClear(i, k)

(***************************************************************************)
(* C33: between two clears the timestamp stored for a conversation key     *)
(* never decreases, and the value stored is the time the handler sampled   *)
(* at its suppression check, not the time its send completed.              *)
(***************************************************************************)
StoresCheckTime(i) ==
  (i \in H /\ handlers[i].pc = "reply" /\ handlers'[i].pc = "done"
     /\ KeyOf(handlers[i]) \in DOMAIN lastReplies'
     /\ lastReplies' # lastReplies) =>
    lastReplies'[KeyOf(handlers[i])] = handlers[i].now

C33_TimestampsNeverDecrease ==
  [][ /\ \A k \in DOMAIN lastReplies \cap DOMAIN lastReplies' :
           lastReplies'[k] >= lastReplies[k]
      /\ \A i \in H : StoresCheckTime(i) ]_vars

(***************************************************************************)
(* The owner types one command in several spellings: the command word in   *)
(* upper, mixed and lower case, and `vip add <number>` with one space and   *)
(* with two spaces before the sub-command or before the number.            *)
(***************************************************************************)
BodyOnUpper == <<"/", "O", "N">>
BodyOnMixed == <<"/", "O", "n">>
BodyVipSpacedAdd == <<"/", "v", "i", "p", " ", " ", "a", "d", "d", " ">> \o NumAlice
BodyVipAddSpaced == <<"/", "v", "i", "p", " ", "a", "d", "d", " ", " ">> \o NumAlice

OnSpellings == { BodyOnUpper, BodyOnMixed, BodyOn }
VipAddSpacings == { BodyVipSpacedAdd, BodyVipAddSpaced, BodyVipAdd }

ParseMsgs == { Self(b) : b \in OnSpellings \cup VipAddSpacings }

NextParse ==
  \/ \E m \in ParseMsgs : MessageCreate(m)
  \/ \E i \in 1..Len(handlers) : CmdReplyResolve(i)
  \/ ApiSetAway(FALSE)

SpecParse == Init /\ [][NextParse]_vars

(***************************************************************************)
(* C34: the command is selected whatever the case of its word, so `/ON`,   *)
(* `/On` and `/on` change the state and answer alike, and `vip add` with   *)
(* its number is taken up alike whatever amount of whitespace separates    *)
(* the tokens.                                                             *)
(***************************************************************************)
SameEffect(bodies, st) ==
  \A a, b \in bodies :
    handleBotCommand(build, a, st) = handleBotCommand(build, b, st)

TakenUpAs(body) ==
  LET r == handleBotCommand(build, body, Config)
  IN  r.st = Config' /\ r.response = Arrived.response

C34_ParsingIgnoresCaseAndSpacing ==
  [][ \A bodies \in {OnSpellings, VipAddSpacings} :
        (Arrival /\ Arrived.msg.body \in bodies) =>
          \A b \in bodies : TakenUpAs(b) ]_vars

(* the half of C34 the code keeps: the case of the command word *)
C34_CaseInsensitive ==
  /\ SameEffect(OnSpellings, Config)
  /\ [][ (Arrival /\ Arrived.msg.body \in OnSpellings) =>
           \A b \in OnSpellings : TakenUpAs(b) ]_vars

(***************************************************************************)
(* The connection lifecycle.  The client delivers 'qr', 'ready',           *)
(* 'auth_failure' and 'disconnected'; the 'qr' handler awaits the image of *)
(* its code, so it completes in a later step and other events are handled  *)
(* in between.  At most MaxQr codes are delivered.                         *)
(***************************************************************************)
MaxQr == 2

QrCodes == { <<"1">>, <<"2">> }

toDataURL(qr) == <<"d", "a", "t", "a", ":">> \o qr

core == <<build, isAwayMode, awayMessage, vipContacts, lastReplies,
          clock, ticks, handlers, sent, cleared>>

(* client.on('qr') up to its await *)
Qr(qr) ==
  /\ Len(qrHandlers) < MaxQr
  /\ qrHandlers' = Append(qrHandlers, [qr |-> qr, pc |-> "toDataURL"])
  /\ lastEvent' = "qr"
  /\ UNCHANGED <<core, isConnected, qrString>>

(* QRCode.toDataURL resolves: the handler stores the image; index.js then  *)
(* assigns isConnected = false, part_002 only broadcasts                   *)
QrResolve(i) ==
  /\ qrHandlers[i].pc = "toDataURL"
  /\ qrString' = toDataURL(qrHandlers[i].qr)
  /\ isConnected' = IF build = "index" THEN FALSE ELSE isConnected
  /\ qrHandlers' = [qrHandlers EXCEPT ![i].pc = "done"]
  /\ UNCHANGED <<core, lastEvent>>

(* QRCode.toDataURL rejects: the catch logs the error *)
QrReject(i) ==
  /\ qrHandlers[i].pc = "toDataURL"
  /\ qrHandlers' = [qrHandlers EXCEPT ![i].pc = "failed"]
  /\ UNCHANGED <<core, isConnected, qrString, lastEvent>>

(* client.on('ready') *)
Ready ==
  /\ isConnected' = TRUE
  /\ qrString' = Null
  /\ lastEvent' = "ready"
  /\ UNCHANGED <<core, qrHandlers>>

(* client.on('auth_failure') *)
AuthFailure ==
  /\ isConnected' = FALSE
  /\ lastEvent' = "auth_failure"
  /\ UNCHANGED <<core, qrString, qrHandlers>>

(* client.on('disconnected'): part_002 also forgets the image *)
Disconnected ==
  /\ isConnected' = FALSE
  /\ qrString' = IF build = "index" THEN qrString ELSE Null
  /\ lastEvent' = "disconnected"
  /\ UNCHANGED <<core, qrHandlers>>

(* mutant of StatusConnection: the image is returned as stored *)
StatusConnection_Unmasked(bld, connected, qr) ==
  [isConnected |-> connected, qrCode |-> qr]

(* GET /api/status: the connection fields of its answer *)
StatusConnection(bld, connected, qr) ==
  [isConnected |-> connected,
   qrCode |-> IF connected THEN Null
              ELSE IF bld = "index" THEN Or(qr, Null) ELSE qr]

NextConn ==
  \/ \E qr \in QrCodes : Qr(qr)
  \/ \E i \in 1..Len(qrHandlers) : QrResolve(i)
  \/ \E i \in 1..Len(qrHandlers) : QrReject(i)
  \/ Ready
  \/ AuthFailure
  \/ Disconnected
  \/ ApiStatus

SpecConn == Init /\ [][NextConn]_vars

(***************************************************************************)
(* C35: once 'ready' was handled, the status route reports connected =     *)
(* true for as long as 'ready' is the last lifecycle event delivered,      *)
(* also when a 'qr' handler was awaiting its image as 'ready' arrived.     *)
(***************************************************************************)
Status == StatusConnection(build, isConnected, qrString)

C35_ConnectedFollowsEvents == lastEvent = "ready" => Status.isConnected

(***************************************************************************)
(* C37: no answer of the status route has isConnected = true together      *)
(* with a QR code, in whatever order the events were handled.              *)
(***************************************************************************)
C37_NoQrCodeWhileConnected == Status.isConnected => Status.qrCode = Null

(* connected with an image stored: a 'qr' handler completed after 'ready' *)
C37_Witness == isConnected /\ qrString # Null

(***************************************************************************)
(* From process start: messages from a contact arrive and are handled      *)
(* while the owner turns away mode on and off by `/on`, `/toggle` and the  *)
(* set-away route, or leaves it as it started.                             *)
(***************************************************************************)
StartMsgs == { Msg(FALSE, Hi, DmChat, Alice), Self(BodyOn), Self(BodyToggle) }

NextStart ==
  \/ \E m \in StartMsgs : MessageCreate(m)
  \/ \E i \in 1..Len(handlers) : GetChatResolve(i)
  \/ \E i \in 1..Len(handlers) : GetContactResolve(i)
  \/ \E i \in 1..Len(handlers) : ReplyResolve(i)
  \/ \E i \in 1..Len(handlers) : CmdReplyResolve(i)
  \/ \E on \in BOOLEAN : ApiSetAway(on)

SpecStart == Init /\ [][NextStart]_vars

(***************************************************************************)
(* C36: the process starts with away mode off, no VIP, no throttle entry   *)
(* and the default away message; from then on no auto-reply is sent and    *)
(* no message is taken up for one until a command or the set-away route    *)
(* has turned away mode on.                                                *)
(***************************************************************************)
AtStart ==
  /\ ~isAwayMode
  /\ vipContacts = {}
  /\ lastReplies = EmptyMap
  /\ awayMessage = DefaultMessage

TakenUp(i) == handlers[i].pc \in {"getChat", "getContact", "reply"}

NeverAway == ~isAwayMode /\ sent = {} /\ \A i \in H : ~TakenUp(i)

TurnsAwayOn ==
  /\ isAwayMode'
  /\ \/ handlers' = handlers
     \/ Arrival /\ IsCommand(Arrived.msg)

C36_NoReplyBeforeAwayTurnedOn ==
  /\ AtStart /\ NeverAway
  /\ [][ NeverAway => (NeverAway' \/ TurnsAwayOn) ]_vars

(* a contact's message was ignored before away mode was ever turned on *)
C36_Witness ==
  /\ NeverAway
  /\ \E i \in H : ~handlers[i].msg.fromMe /\ handlers[i].outcome = "awayOff"

====
